---------------------------- MODULE Spec2Model ----------------------------
(* A model of the sampling pipeline of l3embedding/train.py: file pair      *)
(* discovery (get_file_list, video_to_audio), the per-draw samplers          *)
(* (sample_one_second, sample_cropped_frame, sample_one_frame), the clip     *)
(* sampler generator (sampler) and the construction of the multiplexed       *)
(* stream (data_generator).                                                  *)
(*                                                                           *)
(* Strings are sequences of one-character strings.  Audio amplitudes are     *)
(* fixed-point numbers: the integer a stands for a / Scale, so Scale is 1.0. *)
(* Every call of the random module is an argument of the operator that       *)
(* models the function; the actions draw it with \E.                         *)
EXTENDS Integers, Sequences, FiniteSets, TLC

VARIABLES
    path_arg,     \* video_to_audio / get_filename: the path given
    path_ret,     \* their results, or NoCall before the call
    fl_args,      \* get_file_list: the arguments and the files they name
    fl_ret,       \* get_file_list: outcome and the work done, or NoCall
    au_buf,       \* sample_one_second: the caller's decoded audio array
    au_cfg,       \* sample_one_second: sampling_frequency and augment
    au_ret,       \* sample_one_second: the last return, and the calls made
    cr_arg,       \* sample_cropped_frame: the frame's shape and rescale
    cr_ret,       \* sample_cropped_frame: the return or the exception
    gen_cfg,      \* data_generator: video_files and num_distractors
    gen,          \* data_generator: where the pairing loops stand
    seeds,        \* data_generator: the (anchor, distractor) pairs so far
    env,          \* what the streams run on: augment, the interpreter, the disk
    streams,      \* each clip sampler: its state and its decoded arrays
    mux,          \* the multiplexer: active streams, backlog, samples given,
                  \* whether it died
    sample,       \* the last sample the multiplexer yielded
    event,        \* the last step of the multiplexer
    rng,          \* the generator of the random module, one for the process
    drawn         \* seeded runs: the samples each stream has emitted so far

vars ==
    <<path_arg, path_ret, fl_args, fl_ret, au_buf, au_cfg, au_ret, cr_arg,
      cr_ret, gen_cfg, gen, seeds, env, streams, mux, sample, event, rng,
      drawn>>

stream_vars == <<env, streams, mux, sample, event>>

seeded_vars == <<rng, drawn>>

----------------------------------------------------------------------------
(* Bounds of the model.                                                      *)

MaxNameLen == 3

MaxFilters == 2

\* The most video files get_file_list hands to data_generator.
MaxFiles == 3

\* The clip samplers in the multiplexer's backlog and the streams it keeps
\* active at once (k).
NumStreams == 2

MuxK == 1

\* The samples the consumer takes from the multiplexer.
MaxSamples == 2

\* The sample rate of the audio given, in samples per second.
SampleRate == 2

\* Calls of sample_one_second on one array.
MaxCalls == 2

\* The fixed-point unit of the amplitudes: Scale stands for 1.0.
Scale == 20

\* The side of the crop and the shorter side of a rescaled frame, in pixels,
\* and the default frame rate.
CropSize == 224

ShortSide == 256

DefaultFps == 30

\* The gains drawn besides the two ends of their range are k / GainDen.
GainDen == 20

----------------------------------------------------------------------------
(* Generic helpers.                                                          *)

\* What a result variable holds before the call.
NoCall == [called |-> FALSE]

\* A raised exception, as a value no string operation returns.
Raised(kind) == <<"raise", kind>>

Min(a, b) == IF a < b THEN a ELSE b

Max(a, b) == IF a > b THEN a ELSE b

Abs(a) == IF a < 0 THEN -a ELSE a

\* All sequences over S of length lo..hi.
SeqsOf(S, lo, hi) == UNION {[1..n -> S] : n \in lo..hi}

----------------------------------------------------------------------------
(* Python string operations used by the path functions.                      *)

\* str.split(sep): the list of the segments between occurrences of sep.
RECURSIVE SplitFrom(_, _, _, _, _)
SplitFrom(s, sep, i, cur, acc) ==
    IF i > Len(s) THEN Append(acc, cur)
    ELSE IF s[i] = sep THEN SplitFrom(s, sep, i + 1, <<>>, Append(acc, cur))
    ELSE SplitFrom(s, sep, i + 1, Append(cur, s[i]), acc)

Split(s, sep) == SplitFrom(s, sep, 1, <<>>, <<>>)

\* sep.join(parts)
RECURSIVE Join(_, _)
Join(parts, sep) ==
    IF Len(parts) = 0 THEN <<>>
    ELSE IF Len(parts) = 1 THEN parts[1]
    ELSE parts[1] \o <<sep>> \o Join(Tail(parts), sep)

\* str.rfind(c), 1-based; 0 when c does not occur.
RFind(s, c) ==
    LET hits == {i \in 1..Len(s) : s[i] = c}
    IN  IF hits = {} THEN 0 ELSE CHOOSE i \in hits : \A j \in hits : j <= i

\* os.path.basename
basename(p) == SubSeq(p, RFind(p, "/") + 1, Len(p))

\* os.path.splitext(p)[0]: cut at the last dot of the last component, unless
\* only dots precede it in that component.
splitext_root(p) ==
    LET sepIndex == RFind(p, "/")
        dotIndex == RFind(p, ".")
    IN  IF dotIndex > sepIndex
           /\ \E k \in (sepIndex + 1)..(dotIndex - 1) : p[k] # "."
        THEN SubSeq(p, 1, dotIndex - 1)
        ELSE p

\* os.path.splitext(p)[1]
splitext_ext(p) == SubSeq(p, Len(splitext_root(p)) + 1, Len(p))

AUDIO == <<"a", "u", "d", "i", "o">>

VIDEO == <<"v", "i", "d", "e", "o">>

FLAC == <<".", "f", "l", "a", "c">>

----------------------------------------------------------------------------
(* get_filename and video_to_audio.                                          *)

get_filename(path) == splitext_root(basename(path))

\* *path, _, name = video_file.split('/') needs two components at least.
video_to_audio(video_file) ==
    LET parts == Split(video_file, "/")
        n     == Len(parts)
    IN  IF n < 2 THEN Raised("ValueError")
        ELSE Join(SubSeq(parts, 1, n - 2)
                    \o <<AUDIO, Split(parts[n], ".")[1] \o FLAC>>, "/")

\* The video paths given: <prefix>/video/<base>, every base over NameChars.
NameChars == {"a", "b", "."}

Prefixes == {<<"d">>, <<"d", "/", "e">>, <<>>}

Basenames == SeqsOf(NameChars, 1, MaxNameLen)

VideoPath(prefix, base) == prefix \o <<"/">> \o VIDEO \o <<"/">> \o base

VideoPaths == {VideoPath(p, b) : p \in Prefixes, b \in Basenames}

PathInit ==
    /\ path_arg \in VideoPaths
    /\ path_ret = NoCall

PathIdle ==
    /\ path_arg = <<>>
    /\ path_ret = NoCall

PathCall ==
    /\ ~path_ret.called
    /\ path_arg # <<>>
    /\ path_ret' = [called   |-> TRUE,
                    audio    |-> video_to_audio(path_arg),
                    filename |-> get_filename(path_arg)]
    /\ UNCHANGED path_arg

path_vars == <<path_arg, path_ret>>

----------------------------------------------------------------------------
(* get_file_list.                                                            *)

\* str.lower() on the letters the labels use.
LowerChar(c) == CASE c = "S" -> "s" [] c = "M" -> "m" [] OTHER -> c

Lower(s) == [i \in 1..Len(s) |-> LowerChar(s[i])]

\* filename.rindex('_', 0, end), 1-based, within the first `upto` characters;
\* 0 stands for the ValueError of a missing underscore.
RIndexUnderscore(s, upto) == RFind(SubSeq(s, 1, upto), "_")

get_ytid_from_filename(filename) ==
    LET first_us_idx  == RIndexUnderscore(filename, Len(filename))
        second_us_idx == RIndexUnderscore(filename, first_us_idx - 1)
    IN  IF first_us_idx = 0 \/ second_us_idx = 0 THEN Raised("ValueError")
        ELSE SubSeq(filename, 1, second_us_idx - 1)

\* glob.glob('{data_dir}/audio/*') with depth 0, '{data_dir}/**/audio/*' with
\* depth 1 (a non-recursive ** is one path component).
Glob(files, depth, kind) ==
    {f \in files : LET parts == Split(f, "/")
                   IN  /\ Len(parts) = depth + 3
                       /\ parts[Len(parts) - 1] = kind}

\* The ontology of the label ids: ontology.get_node(label_id).name
OntologyName(label_id) ==
    CASE label_id = "m1" -> <<"S", "p">>
      [] label_id = "m2" -> <<"M", "u">>

\* The mutant: a matching rule sets the outcome to its polarity.
FilterStepLastMatch(accept, match, filter_accept) ==
    IF match THEN filter_accept ELSE accept

\* Lines 144-145: what one rule does to accept.
FilterStep(accept, match, filter_accept) ==
    IF match = filter_accept THEN FALSE ELSE accept

\* Lines 131-145: the loop over the filters, from rule i on.
RECURSIVE FilterLoop(_, _, _, _, _)
FilterLoop(filters, i, accept, ytid, video_labels) ==
    IF i > Len(filters) THEN accept
    ELSE LET filter_accept == filters[i].accept_reject = "accept"
             string == filters[i].string
             match  == IF filters[i].filter_type = "ytid"
                       THEN ytid = string
                       ELSE Lower(string) \in video_labels
         IN  FilterLoop(filters, i + 1,
                        FilterStep(accept, match, filter_accept),
                        ytid, video_labels)

\* Lines 125-147 for one filename: whether it is kept.
ClipAccepted(filename, metadata, filters) ==
    LET ytid == get_ytid_from_filename(filename)
        video_labels == {Lower(OntologyName(metadata[ytid][k])) :
                            k \in 1..Len(metadata[ytid])}
    IN  FilterLoop(filters, 1, TRUE, ytid, video_labels)

FlRaise(kind, work) ==
    [called |-> TRUE, raised |-> kind, audio_files |-> {}, video_files |-> {},
     work |-> work]

FlReturn(audio_files, video_files, valid, work) ==
    [called |-> TRUE, raised |-> "none",
     audio_files |-> {f \in audio_files : get_filename(f) \in valid},
     video_files |-> {f \in video_files : get_filename(f) \in valid},
     work |-> work]

\* The mutant: the check placed after the loads.
MissingOntologyAfterLoads(listed, loaded) == FlRaise("ValueError", loaded)

\* Lines 112-115: the ontology path is missing; listed is the work done so
\* far, loaded the work had the loads of lines 117-120 been done as well.
MissingOntology(listed, loaded) == FlRaise("ValueError", listed)

\* The whole of get_file_list.  work lists the calls made that reach outside
\* the function, in order.
get_file_list(a) ==
    IF ~a.dir.listable THEN FlRaise("FileNotFoundError", <<"listdir">>)
    ELSE
    LET depth == IF "audio" \in a.dir.entries /\ "video" \in a.dir.entries
                 THEN 0 ELSE 1
        audio_files == Glob(a.dir.files, depth, AUDIO)
        video_files == Glob(a.dir.files, depth, VIDEO)
        valid_filenames == {get_filename(f) : f \in audio_files}
                             \cap {get_filename(f) : f \in video_files}
        listed == <<"listdir", "glob", "glob">>
        loaded == listed \o <<"ASOntology", "load_metadata", "load_filters">>
    IN  IF a.metadata_path /\ a.filter_path
        THEN IF ~a.ontology_path THEN MissingOntology(listed, loaded)
             ELSE IF \E f \in valid_filenames :
                        get_ytid_from_filename(f) \notin DOMAIN a.metadata
             THEN FlRaise("KeyError", loaded)
             ELSE FlReturn(audio_files, video_files,
                           {f \in valid_filenames :
                               ClipAccepted(f, a.metadata, a.filters)},
                           loaded)
        ELSE FlReturn(audio_files, video_files, valid_filenames, listed)

\* The data directories given: audio/ and video/ directly under d, or one
\* level down, or a directory that cannot be listed.  x and y have both an
\* audio and a video file, z and w only one of them.
File(dirs, kind, name, ext) ==
    Join(dirs \o <<kind, name \o <<"_", "0", "_", "1", ".">> \o ext>>, "/")

FilesUnder(dirs) ==
    {File(dirs, AUDIO, <<n>>, <<"f">>) : n \in {"x", "y", "z"}}
      \cup {File(dirs, VIDEO, <<n>>, <<"m">>) : n \in {"x", "y", "w"}}

Dirs ==
    { [listable |-> TRUE, entries |-> {"audio", "video"},
       files |-> FilesUnder(<<<<"d">>>>)],
      [listable |-> TRUE, entries |-> {"s"},
       files |-> FilesUnder(<<<<"d">>, <<"s">>>>)],
      [listable |-> FALSE, entries |-> {}, files |-> {}] }

Rules ==
    [filter_type : {"ytid"}, accept_reject : {"accept", "reject"},
     string : {<<"x">>}]
      \cup [filter_type : {"label"}, accept_reject : {"accept", "reject"},
            string : {<<"S", "p">>, <<"M", "u">>}]

LabelLists == {<<"m1">>, <<"m2">>, <<"m1", "m2">>}

\* The metadata file: x's labels vary, y is labelled m1 or missing.
Metadatas ==
    {(<<"x">> :> lx) @@ (<<"y">> :> <<"m1">>) : lx \in LabelLists}
      \cup {(<<"x">> :> lx) : lx \in LabelLists}

FlInit ==
    /\ fl_args \in [dir : Dirs, metadata_path : BOOLEAN, filter_path : BOOLEAN,
                    ontology_path : BOOLEAN, metadata : Metadatas,
                    filters : SeqsOf(Rules, 0, MaxFilters)]
    /\ fl_ret = NoCall

FlIdle ==
    /\ fl_args = NoCall
    /\ fl_ret = NoCall

GetFileList ==
    /\ ~fl_ret.called
    /\ fl_args # NoCall
    /\ fl_ret' = get_file_list(fl_args)
    /\ UNCHANGED fl_args

fl_vars == <<fl_args, fl_ret>>

----------------------------------------------------------------------------
(* sample_one_second.  A gain is a fraction <<num, den>>.                    *)

\* random.randrange(n): the values it can return; none when n <= 0
\* (ValueError).
Randrange(n) == 0..(n - 1)

LeqFrac(a, b) == a[1] * b[2] <= b[1] * a[2]

\* np.abs(audio_data).max()
Peak(w) ==
    LET abs == {Abs(w[i]) : i \in 1..Len(w)}
    IN  CHOOSE m \in abs : \A x \in abs : x <= m

\* Line 194: audio_data[start:start+sampling_frequency]; the slice stops at
\* the end of the array.
Slice(audio_data, start, n) ==
    SubSeq(audio_data, start + 1, Min(start + n, Len(audio_data)))

\* The mutant: the zeros in front of the samples.
PadFront(w, n) == IF Len(w) # n THEN [i \in 1..(n - Len(w)) |-> 0] \o w ELSE w

\* Lines 195-200: np.pad(..., ((0, n - len), (0, 0)), mode='constant')
Pad(w, n) == IF Len(w) # n THEN w \o [i \in 1..(n - Len(w)) |-> 0] ELSE w

\* The mutant: the bound of the gain without the guard against clipping.
OnePlusMaxGainUnguarded(peak) == <<11, 10>>

\* Lines 203-208: 1 + max_gain, with max_gain = min(0.1, 1.0/peak - 1) for a
\* peak that is not zero and 0.1 for silence.
OnePlusMaxGain(peak) ==
    IF peak # 0
    THEN IF 11 * peak <= 10 * Scale THEN <<11, 10>> ELSE <<Scale, peak>>
    ELSE <<11, 10>>

\* Line 209: 1 + random.uniform(-0.1, max_gain), which is
\* -0.1 + (max_gain + 0.1) * random(): every value between the two ends,
\* whichever of them is the smaller; here the ends and the k / GainDen
\* between them.
Gains(peak) ==
    LET a == <<9, 10>>
        b == OnePlusMaxGain(peak)
        lo == IF LeqFrac(a, b) THEN a ELSE b
        hi == IF LeqFrac(a, b) THEN b ELSE a
    IN  {a, b} \cup {g \in {<<k, GainDen>> : k \in 1..(2 * GainDen)} :
                        LeqFrac(lo, g) /\ LeqFrac(g, hi)}

\* Line 210 for one sample: the product, rounded to the nearest amplitude.
ApplyGain(x, g) ==
    LET m == (2 * Abs(x) * g[1] + g[2]) \div (2 * g[2])
    IN  IF x < 0 THEN -m ELSE m

NoGain == <<1, 1>>

\* Lines 189-192: the start offsets random.randrange can give.
Starts(audio_data, sampling_frequency) ==
    IF Len(audio_data) > sampling_frequency
    THEN Randrange(Len(audio_data) - sampling_frequency)
    ELSE {0}

\* The window of lines 194-200, before any gain.
Window(audio_data, sampling_frequency, start) ==
    Pad(Slice(audio_data, start, sampling_frequency), sampling_frequency)

\* The whole of sample_one_second for the random values start and gain.
\* window is the array returned, start the offset in samples (the function
\* returns start / sampling_frequency seconds), params the augmentation
\* parameters, raw the window before the gain, and buffer the caller's array
\* after the call: a slice of full length is a view of the caller's array,
\* so audio_data *= gain scales the caller's samples too, while np.pad
\* returns a new array.
sample_one_second(audio_data, sampling_frequency, augment, start, gain) ==
    LET raw      == Window(audio_data, sampling_frequency, start)
        is_view  == Len(Slice(audio_data, start, sampling_frequency))
                      = sampling_frequency
        scaled   == [i \in 1..Len(raw) |-> ApplyGain(raw[i], gain)]
        inplace  == [i \in 1..Len(audio_data) |->
                        IF i > start /\ i <= start + sampling_frequency
                        THEN ApplyGain(audio_data[i], gain)
                        ELSE audio_data[i]]
    IN  [window |-> IF augment THEN scaled ELSE raw,
         start  |-> start,
         sampling_frequency |-> sampling_frequency,
         params |-> IF augment THEN <<gain>> ELSE <<>>,
         raw    |-> raw,
         buffer |-> IF augment /\ is_view THEN inplace ELSE audio_data]

\* The gains line 209 can draw for a window; NoGain stands for the branch
\* that draws none.
GainChoices(raw, augment) == IF augment THEN Gains(Peak(raw)) ELSE {NoGain}

\* The amplitudes decoded: sf.read(dtype='float32') of a FLAC file gives
\* samples in [-1.0, 1.0].
Amps == {0, Scale \div 2, (19 * Scale) \div 20, -Scale}

AudioInit ==
    /\ au_buf \in SeqsOf(Amps, 0, SampleRate + 2)
    /\ au_cfg \in [sampling_frequency : {SampleRate}, augment : BOOLEAN]
    /\ au_ret = [called |-> FALSE, calls |-> 0]

AudioIdle ==
    /\ au_buf = <<>>
    /\ au_cfg = NoCall
    /\ au_ret = NoCall

SampleOneSecond ==
    /\ au_cfg # NoCall
    /\ au_ret.calls < MaxCalls
    /\ \E start \in Starts(au_buf, au_cfg.sampling_frequency) :
       \E gain \in GainChoices(Window(au_buf, au_cfg.sampling_frequency, start),
                               au_cfg.augment) :
          LET r == sample_one_second(au_buf, au_cfg.sampling_frequency,
                                     au_cfg.augment, start, gain)
          IN  /\ au_ret' = [called |-> TRUE, calls |-> au_ret.calls + 1,
                            ret |-> r, given |-> au_buf]
              /\ au_buf' = r.buffer
    /\ UNCHANGED au_cfg

au_vars == <<au_buf, au_cfg, au_ret>>

----------------------------------------------------------------------------
(* rescale_frame, sample_cropped_frame and sample_one_frame.  A frame is its *)
(* shape <<nx, ny, nc>>, a video <<num_frames, nx, ny, nc>>.                 *)

\* What stands for a random value that was not drawn, or that
\* random.randrange could not draw because its range is empty.
NoValue == -1

\* The two ends of a range of random values: the draws the actions explore
\* where the range is wide.
Ends(S) == {x \in S : (\A y \in S : x <= y) \/ (\A y \in S : y <= x)}

\* The least and the largest value random.randrange(n) can give, n > 0.
RandrangeEnds(n) == {0, n - 1}

\* math.ceil(a / b) for positive b
CeilDiv(a, b) == (a + b - 1) \div b

\* Lines 257-259 (and 232-234): the shape with the shorter side at 256.
RescaledShape(nx, ny) ==
    <<CeilDiv(ShortSide * nx, Min(nx, ny)), CeilDiv(ShortSide * ny, Min(nx, ny))>>

\* rescale_frame: after the assert of line 260, line 262 resizes `frame`, a
\* name that is neither a parameter nor a local of the function nor a global
\* of train.py, so the call raises NameError.
rescale_frame(shape) ==
    LET new == RescaledShape(shape[1], shape[2])
    IN  IF ShortSide \notin {new[1], new[2]}
        THEN [raised |-> "AssertionError"]
        ELSE [raised |-> "NameError"]

\* The values random.randrange(n - 224) can give for a side of n pixels.
CropDraws(n) ==
    IF n - CropSize <= 0 THEN {NoValue} ELSE RandrangeEnds(n - CropSize)

\* The whole of sample_cropped_frame, for the random offsets rx and ry.
\* The crop is frame_data[start_x:end_x, start_y:end_y, :].
sample_cropped_frame(shape, rescale, rx, ry) ==
    LET scaled == IF rescale THEN rescale_frame(shape)
                  ELSE [raised |-> "none", shape |-> shape]
    IN  IF scaled.raised # "none" THEN [raised |-> scaled.raised]
        ELSE IF rx = NoValue \/ ry = NoValue THEN [raised |-> "ValueError"]
        ELSE LET nx == scaled.shape[1]
                 ny == scaled.shape[2]
                 end_x == rx + CropSize
                 end_y == ry + CropSize
             IN  [raised |-> "none",
                  crop   |-> <<Min(end_x, nx) - rx, Min(end_y, ny) - ry,
                               scaled.shape[3]>>,
                  bbox   |-> [start_x |-> rx, start_y |-> ry,
                              end_x |-> end_x, end_y |-> end_y],
                  cut_from |-> scaled.shape]

\* The offsets sample_cropped_frame draws for a frame.
CropChoices(shape, rescale) ==
    IF rescale /\ rescale_frame(shape).raised # "none"
    THEN {<<NoValue, NoValue>>}
    ELSE CropDraws(shape[1]) \X CropDraws(shape[2])

\* Line 311: int(start * fps) for start = n / d seconds.
StartFrame(start, fps) == (start.n * fps) \div start.d

\* The values random.randrange(duration) of line 322 can give.
FrameDraws(num_frames, start, fps) ==
    LET duration == Min(fps, num_frames - StartFrame(start, fps))
    IN  IF duration > 0 THEN RandrangeEnds(duration) ELSE {NoValue}

\* The mutant: the start frame kept when it lies past the end of the video.
PickFramePastEnd(num_frames, start, fps, r) ==
    LET start_frame == StartFrame(start, fps)
        duration    == Min(fps, num_frames - start_frame)
    IN  IF duration > 0 THEN start_frame + r ELSE start_frame

\* Lines 309-327 with a start time: the index of the frame picked.
PickFrame(num_frames, start, fps, r) ==
    LET start_frame == StartFrame(start, fps)
        duration    == Min(fps, num_frames - start_frame)
    IN  IF duration > 0 THEN start_frame + r
        ELSE Min(start_frame, num_frames - 1)

\* The augmentation of lines 336-369: the coin of the flip, the coin of the
\* order, the saturation factor random() + 0.5 and the brightness delta
\* (2 * random() - 1) * 32 / 255, as fractions.  horiz_flip,
\* adjust_saturation and adjust_brightness keep the shape of the frame.
VideoAugChoices ==
    [horizontal_flip : BOOLEAN, saturation_first : BOOLEAN,
     saturation_factor : {<<1, 2>>, <<1, 1>>},
     brightness_delta : {<<-32, 255>>}]

NoVideoAug == [horizontal_flip |-> FALSE]

\* horiz_flip, adjust_saturation and adjust_brightness of l3embedding.image:
\* each returns a frame of the shape it was given.
horiz_flip(shape) == shape

adjust_saturation(shape, factor) == shape

adjust_brightness(shape, delta) == shape

\* Lines 336-363: the frame after the flip and the two jitters, in the
\* order the second coin chose.
Augmented(shape, aug) ==
    LET flipped == IF aug.horizontal_flip THEN horiz_flip(shape) ELSE shape
    IN  IF aug.saturation_first
        THEN adjust_brightness(adjust_saturation(flipped, aug.saturation_factor),
                               aug.brightness_delta)
        ELSE adjust_saturation(adjust_brightness(flipped, aug.brightness_delta),
                               aug.saturation_factor)

\* The whole of sample_one_frame with a start time, for the random values
\* r (the frame within the window), rx and ry (the crop) and aug. frame is
\* the index picked; the function returns frame / fps seconds.
sample_one_frame(video, start, fps, augment, rescale, r, rx, ry, aug) ==
    LET num_frames == video[1]
        frame == PickFrame(num_frames, start, fps, r)
    IN  IF frame >= num_frames \/ frame < -num_frames
        THEN [raised |-> "IndexError"]
        ELSE LET c == sample_cropped_frame(<<video[2], video[3], video[4]>>,
                                           rescale, rx, ry)
             IN  IF c.raised # "none" THEN [raised |-> c.raised]
                 ELSE [raised |-> "none",
                       video  |-> IF augment THEN Augmented(c.crop, aug)
                                  ELSE c.crop,
                       frame  |-> frame,
                       fps    |-> fps,
                       params |-> IF augment
                                  THEN [bounding_box |-> c.bbox,
                                        horizontal_flip |-> aug.horizontal_flip,
                                        saturation_factor |-> aug.saturation_factor,
                                        brightness_delta |-> aug.brightness_delta]
                                  ELSE [bounding_box |-> c.bbox]]

\* The frames given: sides below, at and above the crop size and the short
\* side.
Sides == {100, CropSize, CropSize + 1, ShortSide, 300, 720}

CropInit ==
    /\ cr_arg \in [shape : Sides \X Sides \X {3}, rescale : BOOLEAN]
    /\ cr_ret = NoCall

CropIdle ==
    /\ cr_arg = NoCall
    /\ cr_ret = NoCall

SampleCroppedFrame ==
    /\ cr_arg # NoCall
    /\ ~cr_ret.called
    /\ \E d \in CropChoices(cr_arg.shape, cr_arg.rescale) :
          cr_ret' = [called |-> TRUE,
                     ret |-> sample_cropped_frame(cr_arg.shape, cr_arg.rescale,
                                                  d[1], d[2])]
    /\ UNCHANGED cr_arg

cr_vars == <<cr_arg, cr_ret>>

----------------------------------------------------------------------------
(* data_generator, lines 490-503: the pairs and their shuffle.  A video file *)
(* is a number; the paths glob returns are distinct.                         *)

\* The mutant: no second look at the distractor.
NeedsAnotherChoiceNever(video_file_2, video_file_1) == FALSE

\* Line 495: while video_file_2 == video_file_1
NeedsAnotherChoice(video_file_2, video_file_1) == video_file_2 = video_file_1

Reverse(q) == [i \in 1..Len(q) |-> q[Len(q) + 1 - i]]

Rotate(q) == IF Len(q) = 0 THEN q ELSE Append(Tail(q), Head(q))

\* Line 503: random.shuffle(seeds) gives a permutation of seeds; the ones
\* explored are the order as it is, its reverse and its rotation by one.
ShuffleDraws(q) == {q, Reverse(q), Rotate(q)}

\* Line 491-493: the anchor of the outer loop, and video_file_2 as the inner
\* loop first sets it; 0 when the outer loop is over.
AnchorAt(i) == IF i <= Len(gen_cfg.video_files) THEN gen_cfg.video_files[i] ELSE 0

GenInit ==
    /\ gen_cfg \in [video_files : {[i \in 1..n |-> i] : n \in 0..MaxFiles},
                    num_distractors : {1, 2}]
    /\ gen = [pc |-> "pairing", i |-> 1, j |-> 0,
              video_file_2 |-> AnchorAt(1), turns |-> 0]
    /\ seeds = <<>>

GenIdle ==
    /\ gen_cfg = NoCall
    /\ gen = NoCall
    /\ seeds = <<>>

Pairing == gen_cfg # NoCall /\ gen.pc = "pairing"

\* Line 496: one turn of the while loop; turns counts the turns of the
\* loop modulo 2.
ChooseDistractor ==
    /\ Pairing
    /\ gen.i <= Len(gen_cfg.video_files)
    /\ NeedsAnotherChoice(gen.video_file_2, AnchorAt(gen.i))
    /\ \E k \in 1..Len(gen_cfg.video_files) :
          gen' = [gen EXCEPT !.video_file_2 = gen_cfg.video_files[k],
                             !.turns = 1 - @]
    /\ UNCHANGED <<gen_cfg, seeds, path_vars, fl_vars, au_vars, cr_vars,
                 stream_vars, seeded_vars>>

\* Line 500, and the step of the for loops to the next pair.
AppendSeed ==
    /\ Pairing
    /\ gen.i <= Len(gen_cfg.video_files)
    /\ ~NeedsAnotherChoice(gen.video_file_2, AnchorAt(gen.i))
    /\ seeds' = Append(seeds, <<AnchorAt(gen.i), gen.video_file_2>>)
    /\ gen' = IF gen.j + 1 < gen_cfg.num_distractors
              THEN [gen EXCEPT !.j = gen.j + 1,
                               !.video_file_2 = AnchorAt(gen.i)]
              ELSE [gen EXCEPT !.i = gen.i + 1, !.j = 0,
                               !.video_file_2 = AnchorAt(gen.i + 1)]
    /\ UNCHANGED <<gen_cfg, path_vars, fl_vars, au_vars, cr_vars, stream_vars, seeded_vars>>

\* Line 503.
ShuffleSeeds ==
    /\ Pairing
    /\ gen.i > Len(gen_cfg.video_files)
    /\ seeds' \in ShuffleDraws(seeds)
    /\ gen' = [gen EXCEPT !.pc = "shuffled"]
    /\ UNCHANGED <<gen_cfg, path_vars, fl_vars, au_vars, cr_vars, stream_vars, seeded_vars>>

gen_vars == <<gen_cfg, gen, seeds>>

----------------------------------------------------------------------------
(* sampler, and the multiplexer that data_generator builds over the          *)
(* samplers.  A clip is a number; clip f has the video file f and the audio  *)
(* file video_to_audio gives for it.                                         *)

Streams == 1..NumStreams

Clips == {1, 2, 3}

\* The audio track of each clip: empty, shorter than one second, longer.
TrackLen(f) ==
    CASE f = 1 -> 0
      [] f = 2 -> SampleRate - 1
      [] OTHER -> SampleRate + 2

AmpAt(i) ==
    CASE i % 4 = 0 -> -Scale
      [] i % 4 = 1 -> Scale \div 2
      [] i % 4 = 2 -> 0
      [] OTHER -> (19 * Scale) \div 20

Track(f) == [i \in 1..TrackLen(f) |-> AmpAt(i + f)]

\* The video of each clip as vread gives it: one frame; as many frames as
\* lie before the last one-second window of the longest track; a second
\* and a frame more.
RawVideo(f) ==
    CASE f = 1 -> <<1, 240, 320, 3>>
      [] f = 2 -> <<((TrackLen(3) - SampleRate - 1) * DefaultFps) \div SampleRate,
                    720, 1280, 3>>
      [] OTHER -> <<DefaultFps + 1, ShortSide, ShortSide, 3>>

\* The pair of clips of each sampler in the backlog.
StreamPair(s) == <<((s - 1) % 3) + 1, (s % 3) + 1>>

\* rescale_video, lines 230-240: the shape of the resized video, or the
\* AssertionError of line 235.
rescale_video(video) ==
    LET new == RescaledShape(video[2], video[3])
    IN  IF ShortSide \notin {new[1], new[2]}
        THEN [raised |-> "AssertionError"]
        ELSE [raised |-> "none", shape |-> <<video[1], new[1], new[2], video[4]>>]

\* Lines 390-423: the four inputs in the order they are decoded.
DecodeOrder(s) ==
    <<<<"video", StreamPair(s)[1]>>, <<"video", StreamPair(s)[2]>>,
      <<"audio", StreamPair(s)[1]>>, <<"audio", StreamPair(s)[2]>>>>

DecodeRaises(input, bad) ==
    \/ input \in bad
    \/ input[1] = "video" /\ rescale_video(RawVideo(input[2])).raised # "none"

\* Lines 393-423: whether all four inputs decode.
sampler_decodes(s, bad) ==
    \A k \in 1..4 : ~DecodeRaises(DecodeOrder(s)[k], bad)

Unstarted ==
    [state |-> "Unstarted", emitted |-> 0,
     video_data_1 |-> <<>>, video_data_2 |-> <<>>,
     audio_data_1 |-> <<>>, audio_data_2 |-> <<>>, sampling_frequency |-> 0]

\* Lines 390-423 when nothing raises: the arrays the generator holds.
sampler_start(s) ==
    [state |-> "Active", emitted |-> 0,
     video_data_1 |-> rescale_video(RawVideo(StreamPair(s)[1])).shape,
     video_data_2 |-> rescale_video(RawVideo(StreamPair(s)[2])).shape,
     audio_data_1 |-> Track(StreamPair(s)[1]),
     audio_data_2 |-> Track(StreamPair(s)[2]),
     sampling_frequency |-> SampleRate]

\* Lines 399, 407, 415, 423: raise StopIteration() in the body of a
\* generator.  Up to Python 3.6 it ends the generator like a return; from
\* Python 3.7 on (PEP 479) the interpreter turns it into a RuntimeError
\* raised to whoever called next().
RaiseStopIteration(pep479) == IF pep479 THEN "RuntimeError" ELSE "StopIteration"

\* Line 444: label = int(video_choice != audio_choice)
LabelOf(video_choice, audio_choice) ==
    IF video_choice # audio_choice THEN 1 ELSE 0

\* Lines 427-465: one turn of the loop of sampler, for the random values c.
\* The audio is one channel, so the mean of line 452 is the window itself.
sampler_draw(s, st, augment, c) ==
    LET audio_data == IF c.audio_choice THEN st.audio_data_1 ELSE st.audio_data_2
        video_data == IF c.video_choice THEN st.video_data_1 ELSE st.video_data_2
        audio_file == IF c.audio_choice THEN StreamPair(s)[1] ELSE StreamPair(s)[2]
        video_file == IF c.video_choice THEN StreamPair(s)[1] ELSE StreamPair(s)[2]
        label == LabelOf(c.video_choice, c.audio_choice)
        a == sample_one_second(audio_data, st.sampling_frequency, augment,
                               c.start, c.gain)
        v == sample_one_frame(video_data,
                              [n |-> a.start, d |-> st.sampling_frequency],
                              DefaultFps, augment, FALSE, c.r, c.rx, c.ry, c.aug)
    IN  IF v.raised # "none" THEN [raised |-> v.raised]
        ELSE [raised |-> "none",
              audio_data_1 |-> IF c.audio_choice THEN a.buffer
                               ELSE st.audio_data_1,
              audio_data_2 |-> IF c.audio_choice THEN st.audio_data_2
                               ELSE a.buffer,
              sample |->
                [called |-> TRUE,
                 video |-> v.video,
                 audio |-> a.window,
                 label |-> <<label, 1 - label>>,
                 audio_file |-> audio_file,
                 video_file |-> video_file,
                 audio_start |-> [n |-> a.start, d |-> st.sampling_frequency],
                 video_start |-> [n |-> v.frame, d |-> DefaultFps],
                 audio_augment_params |-> a.params,
                 video_augment_params |-> v.params]]

\* Of the gains a draw can give, the smallest and the largest.
GainEnds(S) ==
    {g \in S : (\A h \in S : LeqFrac(g, h)) \/ (\A h \in S : LeqFrac(h, g))}

\* The random values one turn of the loop can draw, in the order it draws
\* them; of a wide range the two ends.  The frame within the window and the
\* two offsets of the crop are taken from the same end of their ranges, and
\* the two coins of the video augmentation fall alike: the sampler only
\* copies them into the sample.
AllDrawChoices(st, augment) ==
    UNION {
      LET audio_data == IF ac THEN st.audio_data_1 ELSE st.audio_data_2
          video_data == IF vc THEN st.video_data_1 ELSE st.video_data_2
          sf == st.sampling_frequency
      IN  UNION {
            [video_choice : {vc}, audio_choice : {ac}, start : {start},
             gain : GainEnds(GainChoices(Window(audio_data, sf, start), augment)),
             r  : FrameDraws(video_data[1], [n |-> start, d |-> sf], DefaultFps),
             rx : CropDraws(video_data[2]),
             ry : CropDraws(video_data[3]),
             aug : IF augment THEN VideoAugChoices ELSE {NoVideoAug}]
            : start \in Ends(Starts(audio_data, sf)) }
      : vc \in BOOLEAN, ac \in BOOLEAN }

DrawChoices(st, augment) ==
    {c \in AllDrawChoices(st, augment) :
        /\ (c.rx = 0) = (c.ry = 0)
        /\ (c.r <= 0) = (c.rx = 0)
        /\ augment => /\ c.aug.horizontal_flip = c.aug.saturation_first
                      /\ c.aug.saturation_factor = <<1, 1>>}

\* The inputs that cannot be decoded: none, or one video or audio file.
BadInputs == {{}} \cup {{<<kind, f>>} : kind \in {"video", "audio"}, f \in Clips}

StreamInit ==
    /\ env \in [augment : BOOLEAN, pep479 : BOOLEAN, bad : BadInputs]
    /\ streams = [s \in Streams |-> Unstarted]
    /\ mux = [active |-> {}, backlog |-> [i \in 1..NumStreams |-> i],
              n |-> 0, crashed |-> FALSE]
    /\ sample = NoCall
    /\ event = [op |-> "init", stream |-> 0, got |-> "none"]

StreamIdle ==
    /\ env = NoCall
    /\ streams = <<>>
    /\ mux = NoCall
    /\ sample = NoCall
    /\ event = NoCall

MuxRuns == env # NoCall /\ ~mux.crashed

\* The multiplexer activates the next stream of the backlog.
MuxActivate ==
    /\ MuxRuns
    /\ Cardinality(mux.active) < MuxK
    /\ mux.backlog # <<>>
    /\ mux' = [mux EXCEPT !.active = @ \cup {Head(mux.backlog)},
                          !.backlog = Tail(@)]
    /\ event' = [op |-> "activate", stream |-> Head(mux.backlog), got |-> "none"]
    /\ UNCHANGED <<env, streams, sample>>

\* The multiplexer asks a stream that was not started for a sample, and one
\* of its inputs does not decode: the generator raises StopIteration().
PullFails(s) ==
    /\ MuxRuns
    /\ s \in mux.active
    /\ streams[s].state = "Unstarted"
    /\ ~sampler_decodes(s, env.bad)
    /\ IF RaiseStopIteration(env.pep479) = "StopIteration"
       THEN /\ streams' = [streams EXCEPT ![s].state = "Ended"]
            /\ mux' = [mux EXCEPT !.active = @ \ {s}]
            /\ event' = [op |-> "pull", stream |-> s, got |-> "end"]
       ELSE /\ streams' = [streams EXCEPT ![s].state = "Raised"]
            /\ mux' = [mux EXCEPT !.crashed = TRUE]
            /\ event' = [op |-> "pull", stream |-> s, got |-> "RuntimeError"]
    /\ UNCHANGED <<env, sample>>

\* The multiplexer asks a stream for a sample: the generator runs to its
\* next yield, from line 388 when it was not started.
PullDraws(s) ==
    /\ MuxRuns
    /\ s \in mux.active
    /\ mux.n < MaxSamples
    /\ \/ streams[s].state = "Active"
       \/ streams[s].state = "Unstarted" /\ sampler_decodes(s, env.bad)
    /\ \E st \in {IF streams[s].state = "Active" THEN streams[s]
                   ELSE sampler_start(s)} :
         \E d \in {sampler_draw(s, st, env.augment, c) :
                      c \in DrawChoices(st, env.augment)} :
                 IF d.raised = "none"
                 THEN /\ streams' = [streams EXCEPT ![s] =
                            [st EXCEPT !.emitted = @ + 1,
                                       !.audio_data_1 = d.audio_data_1,
                                       !.audio_data_2 = d.audio_data_2]]
                      /\ sample' = d.sample
                      /\ event' = [op |-> "pull", stream |-> s, got |-> "sample"]
                      /\ mux' = [mux EXCEPT !.n = @ + 1]
                 ELSE /\ streams' = [streams EXCEPT ![s] =
                            [Unstarted EXCEPT !.state = "Raised",
                                              !.emitted = st.emitted]]
                      /\ mux' = [mux EXCEPT !.crashed = TRUE]
                      /\ event' = [op |-> "pull", stream |-> s, got |-> d.raised]
                      /\ UNCHANGED sample
    /\ UNCHANGED env

\* The multiplexer stops pulling from an active stream and drops it.
MuxRotate(s) ==
    /\ MuxRuns
    /\ s \in mux.active
    /\ streams[s].state = "Active"
    /\ streams' = [streams EXCEPT ![s] =
                      [Unstarted EXCEPT !.state = "Retired",
                                        !.emitted = streams[s].emitted]]
    /\ mux' = [mux EXCEPT !.active = @ \ {s}]
    /\ event' = [op |-> "rotate", stream |-> s, got |-> "none"]
    /\ UNCHANGED <<env, sample>>

----------------------------------------------------------------------------
(* The streams over the seeded generator.  sampler, sample_one_second,       *)
(* sample_one_frame and sample_cropped_frame all draw from the functions of  *)
(* the random module, which share one generator for the whole process;       *)
(* data_generator seeds it at line 483.  The generator is a sequence of      *)
(* values fixed by the seed; of each value only the half of its range it     *)
(* falls in is kept: the low half gives a coin that falls True and the low   *)
(* end of a range, the high half a coin that falls False and the high end.   *)

\* data_generator, line 470: random_state=20171021
DefaultRandomState == 20171021

\* Line 483: random.seed(random_state), the state of the generator after it.
random_seed(random_state) == random_state % 16

\* The state of the generator after one value was drawn from it.
RngNext(x) == (5 * x + 3) % 16

RECURSIVE RngAfter(_, _)
\* The state of the generator after k values were drawn from it.
RngAfter(x, k) == IF k = 0 THEN x ELSE RngAfter(RngNext(x), k - 1)

\* The k-th value drawn from the generator in state x: 0 for the low half
\* of the range, 1 for the high half.
RngDraw(x, k) == RngAfter(x, k) \div 8

\* random.randrange(n) for the value b drawn.
RandrangeAt(n, b) == IF b = 0 THEN 0 ELSE n - 1

\* Lines 427-428, 190, 209, 322, 282-283 and 339-358: the random values of
\* one turn of the loop of sampler, drawn in that order from the generator
\* in state x, and the number of values the turn draws.
seeded_choices(st, augment, x) ==
    LET video_choice == RngDraw(x, 1) = 0
        audio_choice == RngDraw(x, 2) = 0
        audio_data == IF audio_choice THEN st.audio_data_1 ELSE st.audio_data_2
        video_data == IF video_choice THEN st.video_data_1 ELSE st.video_data_2
        sf == st.sampling_frequency
        long == Len(audio_data) > sf
        k_start == IF long THEN 3 ELSE 2
        start == IF long THEN RandrangeAt(Len(audio_data) - sf, RngDraw(x, 3))
                 ELSE 0
        k_gain == IF augment THEN k_start + 1 ELSE k_start
        gain == IF ~augment THEN NoGain
                ELSE IF RngDraw(x, k_gain) = 0 THEN <<9, 10>>
                ELSE OnePlusMaxGain(Peak(Window(audio_data, sf, start)))
        duration == Min(DefaultFps,
                        video_data[1] - StartFrame([n |-> start, d |-> sf],
                                                   DefaultFps))
        k_frame == IF duration > 0 THEN k_gain + 1 ELSE k_gain
        r == IF duration > 0 THEN RandrangeAt(duration, RngDraw(x, k_frame))
             ELSE NoValue
        rx == RandrangeAt(video_data[2] - CropSize, RngDraw(x, k_frame + 1))
        ry == RandrangeAt(video_data[3] - CropSize, RngDraw(x, k_frame + 2))
        aug == IF ~augment THEN NoVideoAug
               ELSE [horizontal_flip |-> RngDraw(x, k_frame + 3) = 0,
                     saturation_first |-> RngDraw(x, k_frame + 4) = 0,
                     saturation_factor |-> IF RngDraw(x, k_frame + 5) = 0
                                           THEN <<1, 2>> ELSE <<1, 1>>,
                     brightness_delta |-> <<-32, 255>>]
    IN  [c |-> [video_choice |-> video_choice, audio_choice |-> audio_choice,
                start |-> start, gain |-> gain, r |-> r, rx |-> rx, ry |-> ry,
                aug |-> aug],
         used |-> IF augment THEN k_frame + 6 ELSE k_frame + 2]

\* The arrays of a stream after a turn of the loop that gave d.
AfterDraw(st, d) ==
    [st EXCEPT !.emitted = @ + 1,
               !.audio_data_1 = d.audio_data_1,
               !.audio_data_2 = d.audio_data_2]

SeededInit ==
    /\ rng \in [random_state : {DefaultRandomState, 0}, built : {1}, x : 0..15]
    /\ rng.x = random_seed(rng.random_state)
    /\ drawn = [s \in Streams |-> <<>>]

SeededIdle ==
    /\ rng = NoCall
    /\ drawn = <<>>

SeededActivate == rng # NoCall /\ MuxActivate /\ UNCHANGED seeded_vars

SeededPullFails(s) == rng # NoCall /\ PullFails(s) /\ UNCHANGED seeded_vars

\* PullDraws with the random values taken from the generator of the process.
SeededPull(s) ==
    /\ rng # NoCall
    /\ MuxRuns
    /\ s \in mux.active
    /\ mux.n < MaxSamples
    /\ \/ streams[s].state = "Active"
       \/ streams[s].state = "Unstarted" /\ sampler_decodes(s, env.bad)
    /\ \E st \in {IF streams[s].state = "Active" THEN streams[s]
                   ELSE sampler_start(s)} :
         \E ch \in {seeded_choices(st, env.augment, rng.x)} :
           \E d \in {sampler_draw(s, st, env.augment, ch.c)} :
             /\ rng' = [rng EXCEPT !.x = RngAfter(@, ch.used)]
             /\ IF d.raised = "none"
                THEN /\ streams' = [streams EXCEPT ![s] = AfterDraw(st, d)]
                     /\ sample' = d.sample
                     /\ drawn' = [drawn EXCEPT ![s] = Append(@, d.sample)]
                     /\ event' = [op |-> "pull", stream |-> s, got |-> "sample"]
                     /\ mux' = [mux EXCEPT !.n = @ + 1]
                ELSE /\ streams' = [streams EXCEPT ![s] =
                           [Unstarted EXCEPT !.state = "Raised",
                                             !.emitted = st.emitted]]
                     /\ mux' = [mux EXCEPT !.crashed = TRUE]
                     /\ event' = [op |-> "pull", stream |-> s, got |-> d.raised]
                     /\ UNCHANGED <<sample, drawn>>
    /\ UNCHANGED env

SeededRotate(s) == rng # NoCall /\ MuxRotate(s) /\ UNCHANGED seeded_vars

\* Line 483 in a call of data_generator that builds another pipeline, with
\* the same random_state, while the streams of this one run.
SeedAgain ==
    /\ rng # NoCall
    /\ rng.built < MaxCalls
    /\ rng' = [rng EXCEPT !.built = @ + 1, !.x = random_seed(rng.random_state)]
    /\ event' = [op |-> "seed", stream |-> 0, got |-> "none"]
    /\ UNCHANGED <<env, streams, mux, sample, drawn>>

----------------------------------------------------------------------------
(* Claims about the path functions and get_file_list.                        *)

\* C9 (as claimed): for every video path <prefix>/video/<name>.<ext>,
\* video_to_audio returns <prefix>/audio/<name>.flac with <name> the
\* extension-stripped name get_filename gives, also when <name> has dots.
C9_AudioPathKeepsFilename ==
    path_ret.called =>
        \A p \in Prefixes, b \in Basenames :
            path_arg = VideoPath(p, b) /\ splitext_ext(b) # <<>> =>
                path_ret.audio
                  = p \o <<"/">> \o AUDIO \o <<"/">> \o path_ret.filename \o FLAC

FilteringOn(a) == a.metadata_path /\ a.filter_path

\* The clips of the data directories that have both files, by their id.
ClipIds == {<<"x">>, <<"y">>}

ClipKept(id) ==
    \E f \in fl_ret.video_files :
        get_filename(f) = id \o <<"_", "0", "_", "1">>

\* Whether a rule matches a clip: its id, or one of its label names.
RuleMatches(rule, id) ==
    IF rule.filter_type = "ytid" THEN rule.string = id
    ELSE \E k \in 1..Len(fl_args.metadata[id]) :
            Lower(OntologyName(fl_args.metadata[id][k])) = Lower(rule.string)

IsAcceptRule(rule) == rule.accept_reject = "accept"

Filtered == fl_ret.called /\ fl_ret.raised = "none" /\ FilteringOn(fl_args)

\* C6 (as claimed): a clip that some rule matches is included iff the last
\* rule that matches it is an accept rule.
C6_LastMatchingRuleDecides ==
    Filtered =>
        \A id \in ClipIds :
            LET hits == {i \in 1..Len(fl_args.filters) :
                            RuleMatches(fl_args.filters[i], id)}
            IN  hits # {} =>
                  (ClipKept(id) <=>
                     \E i \in hits : /\ \A j \in hits : j <= i
                                     /\ IsAcceptRule(fl_args.filters[i]))

\* C6 (amended): a clip is included iff no rule of the list has "matches the
\* clip" equal to "is an accept rule"; no later rule re-accepts a clip, and
\* the order of the rules does not matter.
C6_EveryRuleCanOnlyReject ==
    Filtered =>
        \A id \in ClipIds :
            ClipKept(id) <=>
                \A i \in 1..Len(fl_args.filters) :
                    RuleMatches(fl_args.filters[i], id)
                      # IsAcceptRule(fl_args.filters[i])

\* Two rules were applied; the first matches x and is a reject rule (it
\* leaves x accepted), the second matches x and is an accept rule, and x is
\* dropped although its last matching rule accepts.
C6_Witness ==
    /\ Filtered
    /\ Len(fl_args.filters) = 2
    /\ RuleMatches(fl_args.filters[1], <<"x">>)
    /\ ~IsAcceptRule(fl_args.filters[1])
    /\ RuleMatches(fl_args.filters[2], <<"x">>)
    /\ IsAcceptRule(fl_args.filters[2])
    /\ ~ClipKept(<<"x">>)
    /\ ClipKept(<<"y">>)

NoOntology(a) == FilteringOn(a) /\ ~a.ontology_path

\* C7 (as claimed): without an ontology path the call fails with the
\* configuration error before any other work: nothing was listed, globbed
\* or loaded.
C7_RaisedBeforeAnyWork ==
    fl_ret.called /\ NoOntology(fl_args) =>
        /\ fl_ret.raised = "ValueError"
        /\ fl_ret.work = <<>>
        /\ fl_ret.audio_files = {} /\ fl_ret.video_files = {}

\* C7 (amended): without an ontology path the call returns no file lists;
\* it raises the ValueError after the data directory was listed and globbed
\* (the listing's own error when the directory cannot be listed), and before
\* the ontology, the metadata and the filters are loaded.
C7_RaisedAfterListingBeforeLoads ==
    fl_ret.called /\ NoOntology(fl_args) =>
        /\ fl_ret.audio_files = {} /\ fl_ret.video_files = {}
        /\ IF fl_args.dir.listable
           THEN /\ fl_ret.raised = "ValueError"
                /\ fl_ret.work = <<"listdir", "glob", "glob">>
           ELSE /\ fl_ret.raised = "FileNotFoundError"
                /\ fl_ret.work = <<"listdir">>

C7_Witness ==
    /\ fl_ret.called
    /\ NoOntology(fl_args)
    /\ fl_args.dir.listable
    /\ fl_ret.raised = "ValueError"
    /\ Len(fl_ret.work) = 3

----------------------------------------------------------------------------
(* Claims about sample_one_second.                                           *)

\* The gain of the last call: the one recorded in the augmentation
\* parameters, or none.
GainUsed == IF au_ret.ret.params = <<>> THEN NoGain ELSE au_ret.ret.params[1]

\* C3: the window returned is exactly sampling_frequency samples long for
\* every track length and start; it is cut from inside the track, and for a
\* track shorter than one second it starts at offset 0, holds the track's
\* samples first (times the gain recorded, when augmenting) and zeros after
\* them.
C3_WindowIsOneSecond ==
    au_ret.called =>
        LET r     == au_ret.ret
            track == au_ret.given
            n     == au_cfg.sampling_frequency
            held  == Min(Len(track), n)
        IN  /\ Len(r.window) = n
            /\ r.start >= 0
            /\ Len(track) >= n => r.start + n <= Len(track)
            /\ Len(track) < n => r.start = 0
            /\ \A i \in 1..held :
                  r.window[i] = ApplyGain(track[r.start + i], GainUsed)
            /\ \A i \in (held + 1)..n : r.window[i] = 0
            /\ ~au_cfg.augment => GainUsed = NoGain

\* A track shorter than one second, not silent, was sampled and padded.
C3_Witness ==
    /\ au_ret.called
    /\ Len(au_ret.given) > 0
    /\ Len(au_ret.given) < au_cfg.sampling_frequency
    /\ au_ret.given[1] # 0
    /\ au_ret.ret.window[1] = au_ret.given[1]
    /\ au_ret.ret.window[au_cfg.sampling_frequency] = 0

\* C4: with augment, the gain drawn for a window whose peak is not zero
\* leaves the peak of the window at most 1.0, as a product and as stored.
C4_GainNeverClips ==
    au_ret.called /\ au_cfg.augment /\ Peak(au_ret.ret.raw) # 0 =>
        /\ Peak(au_ret.ret.raw) * GainUsed[1] <= Scale * GainUsed[2]
        /\ Peak(au_ret.ret.window) <= Scale

\* A window with a peak close to 1.0 was amplified by the largest gain its
\* peak allows, which is less than 1.1.
C4_Witness ==
    /\ au_ret.called
    /\ au_cfg.augment
    /\ 11 * Peak(au_ret.ret.raw) > 10 * Scale
    /\ Peak(au_ret.ret.raw) < Scale
    /\ GainUsed = <<Scale, Peak(au_ret.ret.raw)>>
    /\ Peak(au_ret.ret.window) = Scale

----------------------------------------------------------------------------
(* Claims about sample_cropped_frame.                                        *)

\* C5 (as claimed): for every frame size and both values of rescale,
\* sample_cropped_frame returns without raising a crop of shape 224x224x3
\* and a bounding box 224 wide and high that lies inside the frame the crop
\* was cut from.
C5_CropIs224 ==
    cr_ret.called =>
        /\ cr_ret.ret.raised = "none"
        /\ cr_ret.ret.crop = <<CropSize, CropSize, 3>>
        /\ cr_ret.ret.bbox.end_x - cr_ret.ret.bbox.start_x = CropSize
        /\ cr_ret.ret.bbox.end_y - cr_ret.ret.bbox.start_y = CropSize
        /\ cr_ret.ret.bbox.start_x >= 0 /\ cr_ret.ret.bbox.start_y >= 0
        /\ cr_ret.ret.bbox.end_x <= cr_ret.ret.cut_from[1]
        /\ cr_ret.ret.bbox.end_y <= cr_ret.ret.cut_from[2]

----------------------------------------------------------------------------
(* Claims about the pairs of data_generator.                                 *)

\* C8: every pair in the backlog has a distractor different from its
\* anchor, while the pairs are built and after they are shuffled.
C8_DistractorDiffers ==
    \A k \in 1..Len(seeds) : seeds[k][1] # seeds[k][2]

\* All the pairs of three files with two distractors each were built and
\* shuffled into another order.
C8_Witness ==
    /\ gen_cfg # NoCall
    /\ gen.pc = "shuffled"
    /\ Len(seeds) = 6
    /\ seeds[1][1] # 1

\* The loops of lines 490-500 are over, and every video file is the anchor
\* of num_distractors pairs of the backlog.
PairsBuilt ==
    /\ gen_cfg # NoCall
    /\ gen.i > Len(gen_cfg.video_files)
    /\ Len(seeds) = Len(gen_cfg.video_files) * gen_cfg.num_distractors
    /\ \A f \in 1..Len(gen_cfg.video_files) :
          Cardinality({k \in 1..Len(seeds) : seeds[k][1] = gen_cfg.video_files[f]})
              = gen_cfg.num_distractors

\* C13 (as claimed): when the random choices are fair, the pairing loop
\* ends for every list of at least one video file, with num_distractors
\* pairs per file in the backlog.
C13_PairingTerminates ==
    (gen_cfg # NoCall /\ Len(gen_cfg.video_files) >= 1) ~> PairsBuilt

----------------------------------------------------------------------------
(* Claims about sampler and the multiplexed stream.                          *)

\* C1 (as claimed): the label of every sample is [1,0] or [0,1], and it is
\* [1,0] iff the audio and the video of the sample come from the same clip.
C1_LabelMarksSameSource ==
    sample.called =>
        /\ sample.label \in {<<1, 0>>, <<0, 1>>}
        /\ sample.label = <<1, 0>> <=> sample.audio_file = sample.video_file

\* C2 (as claimed): a stream one of whose inputs does not decode ends as an
\* ordinary end of stream with no sample emitted, and no error reaches the
\* multiplexer, which goes on with the other streams.
C2_DecodeFailureEndsStreamQuietly ==
    env # NoCall =>
        \A s \in Streams :
            streams[s].state # "Unstarted" /\ ~sampler_decodes(s, env.bad) =>
                /\ streams[s].state = "Ended"
                /\ streams[s].emitted = 0
                /\ ~mux.crashed

\* The stream has decoded its inputs, or will when it is first pulled.
Decoded(s) ==
    \/ streams[s].state = "Active"
    \/ streams[s].state = "Unstarted" /\ sampler_decodes(s, env.bad)

\* The step is a pull of stream s.
Pulled(s) == event'.op = "pull" /\ event'.stream = s

YieldsOnPull(s) ==
    Decoded(s) /\ Pulled(s) =>
        /\ event'.got = "sample"
        /\ streams'[s].state = "Active"
        /\ streams'[s].emitted = streams[s].emitted + 1
        /\ sample'.called
        /\ ~mux'.crashed

ActiveUntilDropped(s) ==
    streams[s].state = "Active" =>
        /\ streams'[s].state \in {"Active", "Retired"}
        /\ streams'[s].state = "Retired" =>
              event'.op = "rotate" /\ event'.stream = s

\* C10: a stream whose four inputs decoded yields a sample on every pull,
\* the first included; it leaves Active only when the multiplexer drops it.
C10_ActiveYieldsOnEveryPull ==
    [][env # NoCall =>
          \A s \in Streams : YieldsOnPull(s) /\ ActiveUntilDropped(s)]_vars

\* A stream gave its second sample from a one-second window of audio that
\* starts where the video picked has no frame left: the last frame is used.
C10_Witness ==
    /\ env # NoCall
    /\ event.op = "pull" /\ event.got = "sample"
    /\ streams[event.stream].state = "Active"
    /\ streams[event.stream].emitted >= 2
    /\ sample.audio_start.n > 0
    /\ StartFrame(sample.audio_start, DefaultFps) >= RawVideo(sample.video_file)[1]
    /\ sample.video_start.n = RawVideo(sample.video_file)[1] - 1

\* C12 (as claimed): after any number of draws, with augment on or off, the
\* two audio buffers of an active stream hold the values decoded at its
\* start.
C12_BuffersStayAsDecoded ==
    env # NoCall =>
        \A s \in Streams :
            streams[s].state = "Active" =>
                /\ streams[s].audio_data_1 = Track(StreamPair(s)[1])
                /\ streams[s].audio_data_2 = Track(StreamPair(s)[2])

----------------------------------------------------------------------------
(* Claims about the streams over the seeded generator.                       *)

RECURSIVE AloneFrom(_, _, _, _)
\* The first n samples of stream s when no one else draws from the
\* generator: the stream in state st, the generator in state x.
AloneFrom(s, st, x, n) ==
    IF n = 0 THEN <<>>
    ELSE LET ch == seeded_choices(st, env.augment, x)
             d  == sampler_draw(s, st, env.augment, ch.c)
         IN  <<d.sample>> \o AloneFrom(s, AfterDraw(st, d), RngAfter(x, ch.used),
                                       n - 1)

\* C11 (as claimed): for a fixed seed the samples a stream emits are the
\* ones it emits when it draws alone, whatever the other streams drew in
\* between and whether or not another data_generator was built meanwhile.
C11_StreamIgnoresOtherDraws ==
    rng # NoCall =>
        \A s \in Streams :
            drawn[s] = AloneFrom(s, sampler_start(s),
                                 random_seed(rng.random_state), Len(drawn[s]))

----------------------------------------------------------------------------

not_stream_vars ==
    <<path_vars, fl_vars, au_vars, cr_vars, gen_vars, seeded_vars>>

Init ==
    /\ StreamInit /\ SeededIdle
    /\ PathIdle /\ FlIdle /\ AudioIdle /\ CropIdle /\ GenIdle

Activate == MuxActivate /\ UNCHANGED not_stream_vars

PullFailed == \E s \in Streams : PullFails(s) /\ UNCHANGED not_stream_vars

Pull == \E s \in Streams : PullDraws(s) /\ UNCHANGED not_stream_vars

Drop == \E s \in Streams : MuxRotate(s) /\ UNCHANGED not_stream_vars

Next == Activate \/ PullFailed \/ Pull \/ Drop

Spec == Init /\ [][Next]_vars

Seeded == /\ SeededInit /\ StreamInit

InitSeeded == Seeded /\ PathIdle /\ FlIdle /\ AudioIdle /\ CropIdle /\ GenIdle

not_seeded_vars == <<path_vars, fl_vars, au_vars, cr_vars, gen_vars>>

ActivateSeeded == SeededActivate /\ UNCHANGED not_seeded_vars

PullFailedSeeded ==
    \E s \in Streams : SeededPullFails(s) /\ UNCHANGED not_seeded_vars

PullSeeded == \E s \in Streams : SeededPull(s) /\ UNCHANGED not_seeded_vars

DropSeeded == \E s \in Streams : SeededRotate(s) /\ UNCHANGED not_seeded_vars

SeedAgainSeeded == SeedAgain /\ UNCHANGED not_seeded_vars

NextSeeded ==
    ActivateSeeded \/ PullFailedSeeded \/ PullSeeded \/ DropSeeded
        \/ SeedAgainSeeded

SpecSeeded == InitSeeded /\ [][NextSeeded]_vars

InitPath == PathInit /\ FlIdle /\ AudioIdle /\ CropIdle /\ GenIdle /\ StreamIdle /\ SeededIdle

NextPath == PathCall /\ UNCHANGED <<fl_vars, au_vars, cr_vars, gen_vars, stream_vars, seeded_vars>>

SpecPath == InitPath /\ [][NextPath]_vars

InitFiles == FlInit /\ PathIdle /\ AudioIdle /\ CropIdle /\ GenIdle /\ StreamIdle /\ SeededIdle

NextFiles == GetFileList /\ UNCHANGED <<path_vars, au_vars, cr_vars, gen_vars, stream_vars, seeded_vars>>

SpecFiles == InitFiles /\ [][NextFiles]_vars

InitAudio == AudioInit /\ PathIdle /\ FlIdle /\ CropIdle /\ GenIdle /\ StreamIdle /\ SeededIdle

NextAudio ==
    SampleOneSecond /\ UNCHANGED <<path_vars, fl_vars, cr_vars, gen_vars, stream_vars, seeded_vars>>

SpecAudio == InitAudio /\ [][NextAudio]_vars

InitCrop == CropInit /\ PathIdle /\ FlIdle /\ AudioIdle /\ GenIdle /\ StreamIdle /\ SeededIdle

NextCrop ==
    SampleCroppedFrame /\ UNCHANGED <<path_vars, fl_vars, au_vars, gen_vars, stream_vars, seeded_vars>>

SpecCrop == InitCrop /\ [][NextCrop]_vars

InitGen ==
    GenInit /\ PathIdle /\ FlIdle /\ AudioIdle /\ CropIdle /\ StreamIdle /\ SeededIdle

NextGen == ChooseDistractor \/ AppendSeed \/ ShuffleSeeds

SpecGen == InitGen /\ [][NextGen]_vars

\* A turn of the while loop in which random.choice gives another file than
\* the anchor.
ChooseOther == ChooseDistractor /\ gen'.video_file_2 # AnchorAt(gen.i)

\* The loops keep running, and random.choice does not give the anchor for
\* ever when the list holds another file.
FairGen == WF_vars(NextGen) /\ SF_vars(ChooseOther)

SpecGenFair == InitGen /\ [][NextGen]_vars /\ FairGen

=============================================================================
